---- MODULE Spec2Model ----
(***************************************************************************)
(* Model of github.com/hlandau/portmap: the public facade (New, Delete,    *)
(* ExternalAddr, NotifyChan) of portmap.go and the per-mapping controller  *)
(* task (portMappingLoop and its NAT-PMP / UPnP attempts).                 *)
(*                                                                         *)
(* Time.  One unit of time is one hour.     Instants are kept relative to   *)
(* the current instant: expireTime holds "expireTime - time.Now()" clipped *)
(* at 0 (only the sign of that difference is ever read by the code), and   *)
(* ZeroTime stands for the zero time.Time{}.  Tick lets one unit pass.     *)
(* Time passes only while the controller is blocked: in a NAT-PMP          *)
(* transaction, in an HTTP request of the UPnP client or in its select     *)
(* with neither case ready; its local steps and the sections under the     *)
(* mutex take no time.  A NAT-PMP transaction lasts at most 127.75 s (the  *)
(* sum of the nine receive windows of natpmp's backoff), which is short    *)
(* against the unit: the end of a unit may fall inside one, but the expiry *)
(* tryNATPMPGW computed before GetExternalAddr is still a whole lifetime   *)
(* away when it is stored.  An HTTP request has no timeout.                *)
(*                                                                         *)
(* Locking.  Every section the code runs under m.mutex is short and does   *)
(* no I/O, so each controller section is one atomic step that needs the    *)
(* mutex free; Delete is split into its Lock and its body so that          *)
(* concurrent callers queue on the mutex.                                  *)
(***************************************************************************)
EXTENDS Integers, Sequences, FiniteSets, TLC

\* ---------------------------------------------------------------- bounds
MaxGateways == 1      \* gateway.GetIPs returns no or MaxGateways addresses
MaxServices == 1      \* distinct WANIPConnection:1 USNs SSDP may hear of
MaxTriesCfg == 2      \* the nonzero Config.Backoff.MaxTries that is tried
MaxLog      == 2      \* unmap attempts remembered in unmapLog

MapGateways == 2      \* gateways tryNATPMP walks through, on its own
ChanCap == 3          \* events client.eventChan buffers (10 in the code)
MaxStarters == 2      \* tasks calling ssdp.Start (one per New)
MaxIntervals == 4     \* broadcast intervals the clock of package ssdp runs

\* ------------------------------------------------------ program constants
BroadcastInterval == 60 \* ssdpbase.BroadcastInterval, in seconds
Hour            == 1  \* 1 * time.Hour
DefaultLifetime == 2  \* 2 * time.Hour
ZeroTime        == -1 \* time.Time{} (IsZero)

modeNATPMP == "NATPMP"
modeUPnP   == "UPnP"

\* ------------------------------------------------------------ input sets
\* Two tasks of the caller, each calling Delete once; "c2" calls second.
Callers   == {"c1", "c2"}
USNs      == 1..MaxServices
\* Config.Lifetime as passed to New (0 asks for the default).
Lifetimes == {0, Hour}
\* Config.ExternalPort as passed to New (0 asks for any port).
SuggestedPorts == {0, 80}
\* Lifetimes a NAT-PMP gateway grants to a map request (RFC 6886: nonzero).
Granted   == {2 * Hour}
\* The port a NAT-PMP gateway allocates: the suggested one, or another one.
GatewayPorts(suggested) == (IF suggested = 0 THEN {} ELSE {suggested}) \cup {40001}
\* randInRange(1025, 65000): a port of [1025, 65000); one representative.
RandomPorts == {1025}
NatpmpIPs == {"192.0.2.7"}
UpnpIPs   == {"198.51.100.9"}
\* Config.Backoff as passed to New: [MaxTries, InitialDelay, MaxDelay,
\* MaxDelayAfterTries], delays in hours.
Backoffs  == {[MaxTries |-> n, InitialDelay |-> 1, MaxDelay |-> 2, MaxDelayAfterTries |-> 1] :
                n \in {0, MaxTriesCfg}}

\* Tasks that call ssdp.Start.
Starters == 1..MaxStarters
upnpWANIPConnectionURN == "urn:schemas-upnp-org:service:WANIPConnection:1"
\* Service types SSDP hears of.
STs == {upnpWANIPConnectionURN, "upnp:rootdevice"}
\* The beacons ssdp.loop may receive from client.Chan().
Events == [USN : USNs, ST : STs]
\* byUSN has no entry for a USN.
NoService == [present |-> FALSE, ST |-> "", LastSeen |-> ZeroTime]
\* No gateway has answered the current attempt's Map request.
NoAnswer == [gw |-> 0, suggested |-> 0, port |-> 0, lifetime |-> 0, age |-> 0,
             ext |-> "none"]

VARIABLES
    newRet,        \* what New returned: "pending", "ErrGlobalIP", "err", "ok"
    gwRes,         \* what gateway.GetIPs returned: "none", "err", "ok"
    gwa,           \* the gateway list handed to portMappingLoop
    ssdpStarted,   \* ssdp.Start has run (once)
    byUSN,         \* SSDP registry: per USN, the age of its LastSeen
    cfg,           \* mapping.cfg: ExternalPort, Lifetime, Backoff
    currentTry,    \* mapping.cfg.Backoff: tries since the last Reset
    expireTime,    \* mapping.expireTime, relative to now (see above)
    aborted,       \* mapping.aborted
    abortChan,     \* mapping.abortChan: "open", "closed", "panic"
    notifyChan,    \* mapping.notifyChan: values buffered (capacity 1)
    externalAddr,  \* mapping.externalAddr
    prevValue,     \* mapping.prevValue
    mutex,         \* mapping.mutex: "free", or the caller holding it
    pc,            \* controller task: position in portMappingLoop
    aborting,      \* portMappingLoop: local aborting
    mode,          \* portMappingLoop: local mode
    ok,            \* portMappingLoop: local ok
    d,             \* portMappingLoop: local d
    timer,         \* time left of time.After(d)
    gi,            \* tryNATPMP: index of the gateway being tried
    svcs,          \* tryUPnP: the services GetServicesByType returned
    preferredLifetime, \* tryNATPMPGW: local preferredLifetime
    expireTimeL,   \* tryNATPMPGW: local expireTime, relative to now
    pcD,           \* each caller's position in Delete
    unmapLog,      \* history: mode of each attempt made while tearing down
    abortMode,     \* history: the mode in which the abort was observed
    failedAttempts, \* history: failed attempts counted against MaxTries
    reqLifetime,   \* history: the lifetime New stored in cfg
    answer,        \* history: the gateway's answers to the current attempt's Map
    \* natpmp.makeRequest (one transaction)
    mrPc,          \* position in makeRequest
    mrTry,         \* rconf: tries since Reset
    mrMaxtime,     \* local maxtime: the receive window of the current send
    mrSends,       \* history: requests written to the socket
    mrTimeouts,    \* history: receive windows that ran out
    mrWindows,     \* history: the receive window of each send, in ms
    \* package ssdp and ssdpbase.NewClient
    once,          \* ssdp.once: "new", "running" (f is running), "done"
    startPc,       \* each caller's position in ssdp.Start
    sockets,       \* history: listen sockets opened by NewClient
    recvTasks,     \* history: recvLoop tasks spawned
    bcastTasks,    \* history: broadcastLoop tasks spawned
    loopTasks,     \* history: ssdp.loop tasks spawned
    registry,      \* ssdp.byUSN with its Service entries (ST, LastSeen)
    now,           \* time.Now() of package ssdp, in seconds
    loopPc,        \* ssdp.loop: position in the body of its range loop
    loopEv,        \* ssdp.loop: the event ev being registered
    rdPc,          \* a caller's position in ssdp.GetServicesByType
    \* the mapping's mutex, step by step
    holder,        \* mapping.mutex: "free", "ctl" or the observer holding it
    ctlAt,         \* controller task: <<kind, place>> of its next lock, unlock or return
    ctlDestroy,    \* portMappingLoop: aborting, as handed to tryNATPMP / tryUPnP
    obPc,          \* each observer's position in Delete() / ExternalAddr()
    obOp,          \* the method each observer is calling
    \* ssdpbase.client after NewClient
    stopChan,      \* client.stopChan: "open", "closed"
    eventChan,     \* client.eventChan: closed or not, and events buffered
    conn,          \* client.conn: "open", "closed"
    recvAt,        \* recvLoop task: "read", "send", "returned", "panicked"
    bcastAt,       \* broadcastLoop task: "write", "select", "returned"
    stopAt         \* the caller of Stop(): how far it got

vars == <<newRet, gwRes, gwa, ssdpStarted, byUSN, cfg, currentTry, expireTime,
          aborted, abortChan, notifyChan, externalAddr, prevValue, mutex, pc,
          aborting, mode, ok, d, timer, gi, svcs, preferredLifetime,
          expireTimeL, pcD, unmapLog, abortMode, failedAttempts, reqLifetime,
          answer, mrPc, mrTry, mrMaxtime, mrSends, mrTimeouts, mrWindows,
          once, startPc, sockets, recvTasks, bcastTasks, loopTasks, registry, now,
          loopPc, loopEv, rdPc, holder, ctlAt, ctlDestroy, obPc,
          obOp, stopChan, eventChan, conn, recvAt, bcastAt, stopAt>>

\* The fields of the mapping object.
mappingVars == <<cfg, currentTry, expireTime, aborted, abortChan, notifyChan,
                 externalAddr, prevValue>>
\* The locals of the controller task.
ctlVars == <<pc, aborting, mode, ok, d, timer, gi, svcs, preferredLifetime,
             expireTimeL>>
\* What New leaves behind.
newVars == <<newRet, gwRes, gwa, ssdpStarted>>
\* The locals of natpmp.makeRequest.
natVars == <<mrPc, mrTry, mrMaxtime, mrSends, mrTimeouts, mrWindows>>
\* The state of package ssdp.
ssdpVars == <<once, startPc, sockets, recvTasks, bcastTasks, loopTasks, registry, now,
              loopPc, loopEv, rdPc>>
\* The state of the packages under the controller.
\* The mapping's mutex with the tasks that take it.
lockVars == <<holder, ctlAt, ctlDestroy, obPc, obOp>>
\* The client of package ssdpbase with its tasks.
clientVars == <<stopChan, eventChan, conn, recvAt, bcastAt, stopAt>>
libVars == <<natVars, ssdpVars, lockVars, clientVars>>
\* What only New and the backoff step of portMappingLoop write.
auxVars == <<failedAttempts, reqLifetime, answer, libVars>>

\* ------------------------------------------------------- pure functions

isActiveNoAfter == expireTime # ZeroTime

\* mapping.isActive: !expireTime.IsZero() && expireTime.After(time.Now())
isActive == expireTime # ZeroTime /\ expireTime > 0

\* net.JoinHostPort(host, port) for a host without a colon: externalAddr is
\* "" or the text of an IPv4 address (NAT-PMP answers carry four bytes,
\* WANIPConnection:1 is an IPv4 service), which is never bracketed.
JoinHostPort(host, port) == host \o ":" \o port

\* strconv.FormatUint(uint64(p), 10)
FormatUint(p) == ToString(p)

ExternalAddrNoPortCheck ==
    IF ~isActive THEN "" ELSE JoinHostPort(externalAddr, FormatUint(cfg.ExternalPort))

\* mapping.ExternalAddr (the value a caller gets once it holds the mutex).
ExternalAddr ==
    IF ~isActive \/ cfg.ExternalPort = 0
    THEN ""
    ELSE JoinHostPort(externalAddr, FormatUint(cfg.ExternalPort))

Min(a, b) == IF a < b THEN a ELSE b

RECURSIVE Pow2(_)
Pow2(n) == IF n = 0 THEN 1 ELSE 2 * Pow2(n - 1)

\* Backoff.NextDelay: 0 once MaxTries tries were made, else
\* min(InitialDelay * 2^min(currentTry, MaxDelayAfterTries), MaxDelay).
NextDelay(b, try) ==
    IF b.MaxTries # 0 /\ try >= b.MaxTries
    THEN 0
    ELSE Min(b.InitialDelay * Pow2(Min(try, b.MaxDelayAfterTries)), b.MaxDelay)

\* Backoff.NextDelay's effect on currentTry.  Without a limit on tries the
\* count is only read through min(currentTry, MaxDelayAfterTries), so it is
\* kept saturated there.
NextTry(b, try) ==
    IF b.MaxTries = 0 /\ try >= b.MaxDelayAfterTries THEN try ELSE try + 1

\* ssdp.GetServicesByType(upnpWANIPConnectionURN): the WANIPConnection:1
\* entries whose LastSeen is within three broadcast intervals.  An entry is
\* "seen" (LastSeen in the current unit of time), "aging" (LastSeen in an
\* earlier unit, still within the window) or "unseen" (absent, or stale).
GetServicesByType == {u \in USNs : byUSN[u] # "unseen"}

\* ------------------------------------------------------------------ Init
Init ==
    /\ newRet = "pending"
    /\ gwRes = "none"
    /\ gwa = <<>>
    /\ ssdpStarted = FALSE
    /\ byUSN = [u \in USNs |-> "unseen"]
    /\ cfg = [ExternalPort |-> 0, Lifetime |-> 0, Backoff |-> CHOOSE b \in Backoffs : TRUE]
    /\ currentTry = 0
    /\ expireTime = ZeroTime
    /\ aborted = FALSE
    /\ abortChan = "open"
    /\ notifyChan = 0
    /\ externalAddr = ""
    /\ prevValue = ""
    /\ mutex = "free"
    /\ pc = "none"
    /\ aborting = FALSE
    /\ mode = modeNATPMP
    /\ ok = FALSE
    /\ d = 0
    /\ timer = 0
    /\ gi = 0
    /\ svcs = {}
    /\ preferredLifetime = 0
    /\ expireTimeL = 0
    /\ pcD = [c \in Callers |-> "idle"]
    /\ unmapLog = <<>>
    /\ abortMode = "none"
    /\ failedAttempts = 0
    /\ reqLifetime = 0
    /\ answer = NoAnswer
    /\ mrPc = "idle"
    /\ mrTry = 0
    /\ mrMaxtime = 0
    /\ mrSends = 0
    /\ mrTimeouts = 0
    /\ mrWindows = <<>>
    /\ once = "new"
    /\ startPc = [c \in Starters |-> "idle"]
    /\ sockets = 0
    /\ recvTasks = 0
    /\ bcastTasks = 0
    /\ loopTasks = 0
    /\ registry = [u \in USNs |-> NoService]
    /\ now = 0
    /\ loopPc = "idle"
    /\ loopEv = CHOOSE ev \in Events : TRUE
    /\ rdPc = "idle"
    /\ holder = "free"
    /\ ctlAt = <<"top", "">>
    /\ ctlDestroy = FALSE
    /\ obPc = [c \in Callers |-> "idle"]
    /\ obOp = [c \in Callers |-> "Delete"]
    /\ stopChan = "open"
    /\ eventChan = [closed |-> FALSE, len |-> 0]
    /\ conn = "open"
    /\ recvAt = "read"
    /\ bcastAt = "write"
    /\ stopAt = "idle"

\* ------------------------------------------------------------------- New

NewGlobalIPStartsSsdp ==
    /\ newRet = "pending"
    /\ newRet' = "ErrGlobalIP"
    /\ ssdpStarted' = TRUE
    /\ UNCHANGED <<gwRes, gwa, byUSN, mappingVars, mutex, ctlVars,
                   pcD, unmapLog, abortMode>>
    /\ UNCHANGED auxVars

\* New when IsGloballyRoutable() is true.
NewGlobalIP ==
    /\ newRet = "pending"
    /\ newRet' = "ErrGlobalIP"
    /\ UNCHANGED <<gwRes, gwa, ssdpStarted, byUSN, mappingVars, mutex, ctlVars,
                   pcD, unmapLog, abortMode>>
    /\ UNCHANGED auxVars

NewGatewayErrIgnored ==
    /\ newRet = "pending"
    /\ gwRes' = "err"
    /\ cfg' = [cfg EXCEPT !.Lifetime = DefaultLifetime]
    /\ ssdpStarted' = TRUE
    /\ pc' = "top"
    /\ newRet' = "ok"
    /\ UNCHANGED <<gwa, byUSN, currentTry, expireTime, aborted, abortChan, notifyChan,
                   externalAddr, prevValue, mutex, aborting, mode, ok, d, timer,
                   gi, svcs, preferredLifetime, expireTimeL, pcD, unmapLog, abortMode>>
    /\ UNCHANGED auxVars

\* New when gateway.GetIPs() fails.
NewGatewayErr ==
    /\ newRet = "pending"
    /\ gwRes' = "err"
    /\ newRet' = "err"
    /\ UNCHANGED <<gwa, ssdpStarted, byUSN, mappingVars, mutex, ctlVars,
                   pcD, unmapLog, abortMode>>
    /\ UNCHANGED auxVars

\* New when gateway.GetIPs() returns the list g without an error: the
\* lifetime is defaulted, the mapping built, SSDP started and the
\* controller task spawned.
NewOk(g, lifetime, port, b) ==
    /\ newRet = "pending"
    /\ gwRes' = "ok"
    /\ gwa' = g
    /\ cfg' = [ExternalPort |-> port,
               Lifetime |-> IF lifetime = 0 THEN DefaultLifetime ELSE lifetime,
               Backoff |-> b]
    /\ ssdpStarted' = TRUE
    /\ pc' = "top"
    /\ newRet' = "ok"
    /\ UNCHANGED <<byUSN, currentTry, expireTime, aborted, abortChan, notifyChan,
                   externalAddr, prevValue, mutex, aborting, mode, ok, d, timer,
                   gi, svcs, preferredLifetime, expireTimeL, pcD, unmapLog, abortMode>>
    /\ reqLifetime' = cfg'.Lifetime
    /\ UNCHANGED <<failedAttempts, answer, libVars>>

New ==
    \/ NewGlobalIP
    \/ NewGatewayErr
    \/ \E n \in {0, MaxGateways}, lifetime \in Lifetimes, port \in SuggestedPorts,
          b \in Backoffs :
          NewOk([i \in 1..n |-> i], lifetime, port, b)

\* ------------------------------------------------------------ controller

\* mapping.notify, run after the other fields got their new values: a
\* non-blocking send on notifyChan when ExternalAddr() differs from prevValue.
notify ==
    LET ea == ExternalAddr'
    IN  IF prevValue = ea
        THEN UNCHANGED <<prevValue, notifyChan>>
        ELSE prevValue' = ea /\ notifyChan' = 1

\* mapping.setInactive
setInactive ==
    /\ expireTime' = ZeroTime
    /\ notify

\* The locals of tryNATPMP / tryUPnP are dead once the attempt returned.
AttemptReturns(result, delay) ==
    /\ ok' = result
    /\ d' = delay
    /\ pc' = "post"
    /\ gi' = 0
    /\ svcs' = {}
    /\ preferredLifetime' = 0
    /\ expireTimeL' = 0

\* The mode of an attempt made while tearing down is remembered.
LogUnmap(m) ==
    unmapLog' = IF aborting /\ Len(unmapLog) < MaxLog THEN Append(unmapLog, m) ELSE unmapLog

AlreadyInactiveNever == FALSE

\* portMappingLoop: aborting && !m.lIsActive()
AlreadyInactive == aborting /\ ~isActive

\* portMappingLoop, head of the loop: the early return when aborting and
\* inactive, then the switch on mode up to the call of tryNATPMP / tryUPnP.
LoopTop ==
    /\ pc = "top"
    /\ mutex = "free"
    /\ IF AlreadyInactive
       THEN /\ pc' = "done"
            /\ UNCHANGED <<mode, gi, svcs, unmapLog>>
       ELSE IF mode = modeNATPMP
       THEN /\ pc' = "natpmp_gw"
            /\ gi' = 1
            /\ LogUnmap(modeNATPMP)
            /\ UNCHANGED <<mode, svcs>>
       ELSE IF GetServicesByType = {}
       THEN /\ mode' = modeNATPMP
            /\ UNCHANGED <<pc, gi, svcs, unmapLog>>
       ELSE /\ svcs' = GetServicesByType
            /\ pc' = "upnp_svc"
            /\ LogUnmap(modeUPnP)
            /\ UNCHANGED <<mode, gi>>
    /\ UNCHANGED <<newVars, byUSN, mappingVars, mutex, aborting, ok, d, timer,
                   preferredLifetime, expireTimeL, pcD, abortMode>>
    /\ UNCHANGED auxVars

PreferredLifetimeAlways(destroy) == cfg.Lifetime

\* tryNATPMPGW: lifetime is zero if we're destroying.
PreferredLifetime(destroy) == IF destroy THEN 0 ELSE cfg.Lifetime

RenewalDelayFull == cfg.Lifetime

\* portMappingLoop after tryNATPMP succeeded: d = m.cfg.Lifetime / 2
RenewalDelay == cfg.Lifetime \div 2

UPnPAvailableAlways == TRUE

\* portMappingLoop after tryNATPMP failed: len(svc) > 0
UPnPAvailable == GetServicesByType # {}

\* tryNATPMP, one turn of its loop over gwa, up to the call of natpmp.Map;
\* after the last gateway tryNATPMP returns false and portMappingLoop looks
\* for a UPnP service to switch to.
TryNATPMPGW ==
    /\ pc = "natpmp_gw"
    /\ IF gi > Len(gwa)
       THEN IF UPnPAvailable
            THEN /\ mode' = modeUPnP
                 /\ ok' = FALSE
                 /\ pc' = "top"
                 /\ gi' = 0
                 /\ UNCHANGED <<d, svcs, preferredLifetime, expireTimeL>>
            ELSE /\ AttemptReturns(FALSE, d)
                 /\ UNCHANGED mode
       ELSE IF aborting /\ ~isActive
       THEN /\ mutex = "free"
            /\ AttemptReturns(TRUE, RenewalDelay)
            /\ UNCHANGED mode
       ELSE /\ preferredLifetime' = PreferredLifetime(aborting)
            /\ pc' = "natpmp_map"
            /\ UNCHANGED <<mode, ok, d, gi, svcs, expireTimeL>>
    /\ UNCHANGED <<newVars, byUSN, mappingVars, mutex, aborting, timer, pcD,
                   unmapLog, abortMode>>
    /\ UNCHANGED auxVars

\* natpmp.Map returned an error (timeout, gateway error code, short
\* response, transport error): tryNATPMPGW returns false.
NatpmpMapErr ==
    /\ pc = "natpmp_map"
    /\ gi' = gi + 1
    /\ pc' = "natpmp_gw"
    /\ preferredLifetime' = 0
    /\ UNCHANGED <<newVars, byUSN, mappingVars, mutex, aborting, mode, ok, d, timer,
                   svcs, expireTimeL, pcD, unmapLog, abortMode>>
    /\ UNCHANGED auxVars

\* natpmp.Map returned (externalPort, actualLifetime): both are stored in
\* cfg; a request with lifetime zero is done, any other goes on to
\* natpmp.GetExternalAddr with expireTime := now + actualLifetime.
NatpmpMapOk(externalPort, actualLifetime) ==
    /\ pc = "natpmp_map"
    /\ mutex = "free"
    /\ cfg' = [cfg EXCEPT !.ExternalPort = externalPort, !.Lifetime = actualLifetime]
    /\ IF preferredLifetime = 0
       THEN /\ AttemptReturns(TRUE, RenewalDelay')
            /\ UNCHANGED answer
       ELSE /\ expireTimeL' = actualLifetime
            /\ pc' = "natpmp_ext"
            /\ answer' = [gw |-> gi, suggested |-> cfg.ExternalPort,
                          port |-> externalPort, lifetime |-> actualLifetime,
                          age |-> 0, ext |-> "none"]
            /\ UNCHANGED <<ok, d, gi, svcs, preferredLifetime>>
    /\ UNCHANGED <<newVars, byUSN, currentTry, expireTime, aborted, abortChan,
                   notifyChan, externalAddr, prevValue, mutex, aborting, mode, timer,
                   pcD, unmapLog, abortMode>>
    /\ UNCHANGED <<failedAttempts, reqLifetime, libVars>>

\* natpmp.GetExternalAddr returned (res = "err", or the address): the
\* address is stored on success, expireTime in both cases.
NatpmpExtReturn(res) ==
    /\ pc = "natpmp_ext"
    /\ mutex = "free"
    /\ externalAddr' = IF res = "err" THEN externalAddr ELSE res
    /\ expireTime' = expireTimeL
    /\ AttemptReturns(TRUE, RenewalDelay)
    /\ answer' = [answer EXCEPT !.ext = res]
    /\ UNCHANGED <<newVars, byUSN, cfg, currentTry, aborted, abortChan, notifyChan,
                   prevValue, mutex, aborting, mode, timer, pcD, unmapLog, abortMode>>
    /\ UNCHANGED <<failedAttempts, reqLifetime, libVars>>

\* tryUPnP, one turn of its loop over svcs, up to the call of upnp.Unmap or
\* upnp.Map; after the last service tryUPnP returns false.  d is 1 hour
\* after every UPnP attempt.
TryUPnPSvc ==
    /\ pc = "upnp_svc"
    /\ IF svcs = {}
       THEN AttemptReturns(FALSE, Hour)
       ELSE \E u \in svcs :
              IF aborting /\ ~isActive
              THEN /\ mutex = "free"
                   /\ AttemptReturns(TRUE, Hour)
              ELSE /\ svcs' = svcs \ {u}
                   /\ pc' = IF aborting THEN "upnp_unmap" ELSE "upnp_map"
                   /\ UNCHANGED <<ok, d, gi, preferredLifetime, expireTimeL>>
    /\ UNCHANGED <<newVars, byUSN, mappingVars, mutex, aborting, mode, timer, pcD, unmapLog, abortMode>>
    /\ UNCHANGED auxVars

\* A UPnP call whose getWANIPControlURL returned a nil URL (description
\* unreachable, non-200, undecodable, or without a WANIPConnection:1
\* control URL): Map, Unmap and GetExternalAddr drop the error and
\* dereference the nil URL, which panics.
UpnpNilURL ==
    /\ pc \in {"upnp_map", "upnp_unmap", "upnp_ext"}
    /\ pc' = "panicked"
    /\ UNCHANGED <<newVars, byUSN, mappingVars, mutex, aborting, mode, ok, d, timer,
                   gi, svcs, preferredLifetime, expireTimeL, pcD, unmapLog, abortMode>>
    /\ UNCHANGED auxVars

\* upnp.Map or upnp.Unmap returned an error (determineSelfIP or the SOAP
\* request failed): tryUPnPSvc returns false.
UpnpErr ==
    /\ pc \in {"upnp_map", "upnp_unmap"}
    /\ pc' = "upnp_svc"
    /\ UNCHANGED <<newVars, byUSN, mappingVars, mutex, aborting, mode, ok, d, timer,
                   gi, svcs, preferredLifetime, expireTimeL, pcD, unmapLog, abortMode>>
    /\ UNCHANGED auxVars

\* upnp.Unmap succeeded: tryUPnPSvc returns true.
UpnpUnmapOk ==
    /\ pc = "upnp_unmap"
    /\ AttemptReturns(TRUE, Hour)
    /\ UNCHANGED <<newVars, byUSN, mappingVars, mutex, aborting, mode, timer, pcD, unmapLog, abortMode>>
    /\ UNCHANGED auxVars

\* upnp.Map succeeded: it returns the port it asked for (a random one when
\* the suggested port was 0); expireTime := now + cfg.Lifetime.
UpnpMapOk(random) ==
    /\ pc = "upnp_map"
    /\ mutex = "free"
    /\ expireTime' = cfg.Lifetime
    /\ cfg' = [cfg EXCEPT !.ExternalPort = IF cfg.ExternalPort = 0 THEN random
                                           ELSE cfg.ExternalPort]
    /\ pc' = "upnp_ext"
    /\ UNCHANGED <<newVars, byUSN, currentTry, aborted, abortChan, notifyChan,
                   externalAddr, prevValue, mutex, aborting, mode, ok, d, timer, gi,
                   svcs, preferredLifetime, expireTimeL, pcD, unmapLog, abortMode>>
    /\ UNCHANGED auxVars

\* upnp.GetExternalAddr returned (res = "err", or the address): the mapping
\* still succeeded.
UpnpExtReturn(res) ==
    /\ pc = "upnp_ext"
    /\ mutex = "free"
    /\ externalAddr' = IF res = "err" THEN externalAddr ELSE res
    /\ AttemptReturns(TRUE, Hour)
    /\ UNCHANGED <<newVars, byUSN, cfg, currentTry, expireTime, aborted, abortChan,
                   notifyChan, prevValue, mutex, aborting, mode, timer, pcD,
                   unmapLog, abortMode>>
    /\ UNCHANGED auxVars

BackoffResetKeeps == currentTry

\* portMappingLoop: m.cfg.Backoff.Reset()
BackoffReset == 0

BackoffDelayInitial == cfg.Backoff.InitialDelay

\* portMappingLoop: d = m.cfg.Backoff.NextDelay()
BackoffDelay == NextDelay(cfg.Backoff, currentTry)

\* portMappingLoop after the attempt: when aborting, setInactive and return;
\* else reset or advance the backoff (setInactive and return once it is
\* exhausted), notify, and enter the select with time.After(d).
Post ==
    /\ pc = "post"
    /\ mutex = "free"
    /\ UNCHANGED <<cfg, externalAddr>>
    /\ IF aborting
       THEN /\ setInactive
            /\ pc' = "done"
            /\ UNCHANGED <<currentTry, d, timer>>
       ELSE IF ok
       THEN /\ currentTry' = BackoffReset
            /\ UNCHANGED expireTime
            /\ notify
            /\ timer' = d
            /\ pc' = "sleep"
            /\ UNCHANGED d
       ELSE /\ currentTry' = NextTry(cfg.Backoff, currentTry)
            /\ d' = BackoffDelay
            /\ IF d' = 0
               THEN /\ setInactive
                    /\ pc' = "done"
                    /\ UNCHANGED timer
               ELSE /\ UNCHANGED expireTime
                    /\ notify
                    /\ timer' = d'
                    /\ pc' = "sleep"
    /\ UNCHANGED <<newVars, byUSN, aborted, abortChan, mutex, aborting, mode, ok, gi,
                   svcs, preferredLifetime, expireTimeL, pcD, unmapLog, abortMode>>
    /\ failedAttempts' = IF aborting THEN failedAttempts
                         ELSE IF ok \/ cfg.Backoff.MaxTries = 0 THEN 0
                         ELSE failedAttempts + 1
    /\ answer' = NoAnswer
    /\ UNCHANGED <<reqLifetime, libVars>>

\* select: case <-m.abortChan
WakeAbort ==
    /\ pc = "sleep"
    /\ abortChan = "closed"
    /\ aborting' = TRUE
    /\ abortMode' = mode
    /\ pc' = "top"
    /\ timer' = 0
    /\ UNCHANGED <<newVars, byUSN, mappingVars, mutex, mode, ok, d, gi, svcs,
                   preferredLifetime, expireTimeL, pcD, unmapLog>>
    /\ UNCHANGED auxVars

\* select: case <-time.After(d)
WakeTimer ==
    /\ pc = "sleep"
    /\ timer = 0
    /\ pc' = "top"
    /\ UNCHANGED <<newVars, byUSN, mappingVars, mutex, aborting, mode, ok, d, timer,
                   gi, svcs, preferredLifetime, expireTimeL, pcD, unmapLog, abortMode>>
    /\ UNCHANGED auxVars

\* The gateway's answer to natpmp.Map: a delete (lifetime 0) is answered
\* with port 0 and lifetime 0, a map with a port and a granted lifetime.
MapAnswers ==
    IF preferredLifetime = 0
    THEN {<<0, 0>>}
    ELSE GatewayPorts(cfg.ExternalPort) \X Granted

Controller ==
    \/ LoopTop
    \/ TryNATPMPGW
    \/ NatpmpMapErr
    \/ \E a \in MapAnswers : NatpmpMapOk(a[1], a[2])
    \/ \E res \in {"err"} \cup NatpmpIPs : NatpmpExtReturn(res)
    \/ TryUPnPSvc
    \/ UpnpNilURL
    \/ UpnpErr
    \/ UpnpUnmapOk
    \/ \E random \in RandomPorts : UpnpMapOk(random)
    \/ \E res \in {"err"} \cup UpnpIPs : UpnpExtReturn(res)
    \/ Post
    \/ WakeAbort
    \/ WakeTimer

\* ----------------------------------------------------------- environment

Dec(t) == IF t > 0 THEN t - 1 ELSE t

\* A panic of the controller task ends the process.
Alive == pc # "panicked"

\* The controller is blocked: in a NAT-PMP transaction, in an HTTP request,
\* in its select with neither case ready, or it has returned.
Blocked ==
    \/ pc \in {"natpmp_map", "natpmp_ext", "upnp_map", "upnp_unmap", "upnp_ext", "done"}
    \/ pc = "sleep" /\ timer > 0 /\ abortChan = "open"

\* One unit of time passes.
Tick ==
    /\ newRet = "ok"
    /\ Alive
    /\ mutex = "free"
    /\ Blocked
    /\ expireTime' = Dec(expireTime)
    /\ timer' = Dec(timer)
    /\ byUSN' = [u \in USNs |-> IF byUSN[u] = "seen" THEN "aging" ELSE byUSN[u]]
    /\ expireTimeL' = Dec(expireTimeL)
    /\ answer' = IF pc = "natpmp_ext"
                 THEN [answer EXCEPT !.age = Min(answer.age + 1, answer.lifetime)]
                 ELSE answer
    /\ UNCHANGED <<newVars, cfg, currentTry, aborted, abortChan, notifyChan,
                   externalAddr, prevValue, mutex, pc, aborting, mode, ok, d, gi,
                   svcs, preferredLifetime, pcD, unmapLog, abortMode>>
    /\ UNCHANGED <<failedAttempts, reqLifetime, libVars>>

\* ssdp.loop registers (or refreshes) a WANIPConnection:1 service.
SsdpEvent(u) ==
    /\ ssdpStarted
    /\ Alive
    /\ byUSN[u] # "seen"
    /\ byUSN' = [byUSN EXCEPT ![u] = "seen"]
    /\ UNCHANGED <<newVars, mappingVars, mutex, ctlVars, pcD, unmapLog, abortMode>>
    /\ UNCHANGED auxVars

\* A registered service was last seen three broadcast intervals (180 s)
\* ago: it was not seen in the current unit of time.
SsdpStale(u) ==
    /\ Alive
    /\ byUSN[u] = "aging"
    /\ byUSN' = [byUSN EXCEPT ![u] = "unseen"]
    /\ UNCHANGED <<newVars, mappingVars, mutex, ctlVars, pcD, unmapLog, abortMode>>
    /\ UNCHANGED auxVars

\* ---------------------------------------------------------------- callers

\* mapping.Delete: m.mutex.Lock()
DeleteLock(c) ==
    /\ newRet = "ok"
    /\ Alive
    /\ pcD[c] = "idle"
    /\ c = "c2" => pcD["c1"] # "idle"
    /\ mutex = "free"
    /\ mutex' = c
    /\ pcD' = [pcD EXCEPT ![c] = "locked"]
    /\ UNCHANGED <<newVars, byUSN, mappingVars, ctlVars, unmapLog, abortMode>>
    /\ UNCHANGED auxVars

\* close(ch): closing a closed channel panics.
Close(ch) == IF ch = "open" THEN "closed" ELSE "panic"

DeleteBodyNoCheck(c) ==
    /\ Alive
    /\ pcD[c] = "locked"
    /\ abortChan' = Close(abortChan)
    /\ aborted' = TRUE
    /\ mutex' = "free"
    /\ pcD' = [pcD EXCEPT ![c] = "returned"]
    /\ UNCHANGED <<newVars, byUSN, cfg, currentTry, expireTime, notifyChan,
                   externalAddr, prevValue, ctlVars, unmapLog, abortMode>>
    /\ UNCHANGED auxVars

\* mapping.Delete under the mutex, and the deferred Unlock.
DeleteBody(c) ==
    /\ Alive
    /\ pcD[c] = "locked"
    /\ IF aborted
       THEN UNCHANGED <<abortChan, aborted>>
       ELSE /\ abortChan' = Close(abortChan)
            /\ aborted' = TRUE
    /\ mutex' = "free"
    /\ pcD' = [pcD EXCEPT ![c] = "returned"]
    /\ UNCHANGED <<newVars, byUSN, cfg, currentTry, expireTime, notifyChan,
                   externalAddr, prevValue, ctlVars, unmapLog, abortMode>>
    /\ UNCHANGED auxVars

\* The consumer of the README: <-m.NotifyChan()
Receive ==
    /\ Alive
    /\ notifyChan = 1
    /\ notifyChan' = 0
    /\ UNCHANGED <<newVars, byUSN, cfg, currentTry, expireTime, aborted, abortChan,
                   externalAddr, prevValue, mutex, ctlVars, pcD, unmapLog, abortMode>>
    /\ UNCHANGED auxVars

Next ==
    \/ New
    \/ Controller
    \/ Tick
    \/ \E u \in USNs : SsdpEvent(u)
    \/ \E u \in USNs : SsdpStale(u)
    \/ \E c \in Callers : DeleteLock(c)
    \/ \E c \in Callers : DeleteBody(c)
    \/ Receive

Spec == Init /\ [][Next]_vars

\* Scheduling: the controller task keeps running and every call it makes
\* returns; a select whose abort case is ready again and again takes it
\* (Go picks among ready cases at random); time does not stop (every
\* transaction and every sleep takes time); a caller holding the mutex
\* releases it.
FairSpec ==
    /\ Spec
    /\ WF_vars(Controller)
    /\ SF_vars(WakeAbort)
    /\ SF_vars(Tick)
    /\ WF_vars(\E c \in Callers : DeleteBody(c))

\* ------------------------------------------------ Delete in flight
\* The program with callers that call Delete() only while a protocol
\* request of the controller is in flight.

\* natpmp.Map, natpmp.GetExternalAddr, upnp.Map, upnp.Unmap or
\* upnp.GetExternalAddr has been called and has not returned.
InFlight == pc \in {"natpmp_map", "natpmp_ext", "upnp_map", "upnp_unmap", "upnp_ext"}

DeleteLockInFlight(c) == InFlight /\ DeleteLock(c)

InFlightNext ==
    \/ New
    \/ Controller
    \/ Tick
    \/ \E u \in USNs : SsdpEvent(u)
    \/ \E u \in USNs : SsdpStale(u)
    \/ \E c \in Callers : DeleteLockInFlight(c)
    \/ \E c \in Callers : DeleteBody(c)
    \/ Receive

InFlightSpec == Init /\ [][InFlightNext]_vars

\* --------------------------------------------------------- tryNATPMP
\* The controller in NAT-PMP mode with a list of MapGateways gateways and
\* no UPnP service in sight.

NewGateways ==
    \E lifetime \in Lifetimes, port \in SuggestedPorts, b \in Backoffs :
        NewOk([i \in 1..MapGateways |-> i], lifetime, port, b)

GatewaysNext ==
    \/ NewGateways
    \/ LoopTop
    \/ TryNATPMPGW
    \/ NatpmpMapErr
    \/ \E a \in MapAnswers : NatpmpMapOk(a[1], a[2])
    \/ \E res \in {"err"} \cup NatpmpIPs : NatpmpExtReturn(res)
    \/ Post
    \/ WakeAbort
    \/ WakeTimer
    \/ Tick
    \/ \E c \in Callers : DeleteLock(c)
    \/ \E c \in Callers : DeleteBody(c)

GatewaysSpec == Init /\ [][GatewaysNext]_vars

\* ------------------------------------------------ natpmp.makeRequest
\* One NAT-PMP transaction, on its own: the controller is not running.
\* Durations are in milliseconds here.

\* Everything but the locals of makeRequest.
portmapVars == <<newVars, byUSN, mappingVars, mutex, ctlVars, pcD, unmapLog,
                 abortMode, failedAttempts, reqLifetime, answer, ssdpVars,
                 lockVars, clientVars>>

\* var backoff = net.Backoff{...}
backoff == [MaxTries |-> 9, InitialDelay |-> 250, MaxDelay |-> 64000, MaxDelayAfterTries |-> 8]

\* The request opcode (opcMapUDP) with and without the response bit.
RequestOpcode == "op"
ResponseOpcode == "0x80|op"

\* What ReadDatagramFromUDP may hand to makeRequest: the source address and
\* port, the length, the version and opcode bytes and the result code.
Datagrams ==
    [ip : {"gateway", "other"}, port : {"5351", "other"}, len : {"short", "long"},
     version : {"0", "1"}, opcode : {RequestOpcode, ResponseOpcode},
     rc : {"0", "nonzero"}]

\* gnet.DialUDP succeeded; rconf := backoff; rconf.Reset()
MrStart ==
    /\ mrPc = "idle"
    /\ mrPc' = "top"
    /\ mrTry' = 0
    /\ UNCHANGED <<mrMaxtime, mrSends, mrTimeouts, mrWindows, portmapVars>>

\* gnet.DialUDP, conn.SetDeadline, conn.Write or a read failed with an
\* error that is no timeout: makeRequest returns it.
MrIoErr ==
    /\ mrPc \in {"idle", "top", "read"}
    /\ mrPc = "top" => NextDelay(backoff, mrTry) # 0
    /\ mrPc' = "err"
    /\ UNCHANGED <<mrTry, mrMaxtime, mrSends, mrTimeouts, mrWindows, portmapVars>>

\* Head of the loop: maxtime := rconf.NextDelay(); break when it is zero,
\* else set the deadline to now + maxtime and write the request.
MrTop ==
    /\ mrPc = "top"
    /\ mrMaxtime' = NextDelay(backoff, mrTry)
    /\ mrTry' = NextTry(backoff, mrTry)
    /\ IF mrMaxtime' = 0
       THEN /\ mrPc' = "timeout"
            /\ UNCHANGED <<mrSends, mrWindows>>
       ELSE /\ mrPc' = "read"
            /\ mrSends' = mrSends + 1
            /\ mrWindows' = Append(mrWindows, mrMaxtime')
    /\ UNCHANGED <<mrTimeouts, portmapVars>>

MrReadTimeoutGivesUp ==
    /\ mrPc = "read"
    /\ mrPc' = "timeout"
    /\ mrTimeouts' = mrTimeouts + 1
    /\ UNCHANGED <<mrTry, mrMaxtime, mrSends, mrWindows, portmapVars>>

\* ReadDatagramFromUDP ran into the deadline: try again.
MrReadTimeout ==
    /\ mrPc = "read"
    /\ mrPc' = "top"
    /\ mrTimeouts' = mrTimeouts + 1
    /\ UNCHANGED <<mrTry, mrMaxtime, mrSends, mrWindows, portmapVars>>

\* makeRequest's checks of a received datagram: the four discards, each a
\* continue of the loop.
Discarded(dg) ==
    \/ dg.ip # "gateway" \/ dg.port # "5351"
    \/ dg.len = "short"
    \/ dg.version # "0" \/ dg.opcode # ResponseOpcode

\* ReadDatagramFromUDP returned the datagram dg.
MrRead(dg) ==
    /\ mrPc = "read"
    /\ mrPc' = IF Discarded(dg) THEN "top"
               ELSE IF dg.rc # "0" THEN "err"
               ELSE "ok"
    /\ UNCHANGED <<mrTry, mrMaxtime, mrSends, mrTimeouts, mrWindows, portmapVars>>

NatpmpNext ==
    \/ MrStart
    \/ MrIoErr
    \/ MrTop
    \/ MrReadTimeout
    \/ \E dg \in Datagrams : MrRead(dg)

NatpmpSpec == Init /\ [][NatpmpNext]_vars

\* ------------------------------------------------------- package ssdp
\* ssdp.Start, ssdp.loop and ssdp.GetServicesByType, on their own, with the
\* registry as the code keeps it.  Instants are in seconds; the clock moves
\* in steps of one broadcast interval.

\* Everything but the state of package ssdp.
controllerVars == <<newVars, byUSN, mappingVars, mutex, ctlVars, pcD, unmapLog,
                    abortMode, failedAttempts, reqLifetime, answer, natVars,
                    lockVars, clientVars>>

\* A panic in ssdp.Start (log.Panice) is not recovered.
SsdpAlive == \A c \in Starters : startPc[c] # "panicked"

StartCallNoOnce(c) ==
    /\ SsdpAlive
    /\ startPc[c] = "idle"
    /\ once' = "running"
    /\ startPc' = [startPc EXCEPT ![c] = "inDo"]
    /\ UNCHANGED <<sockets, recvTasks, bcastTasks, loopTasks, registry, now, loopPc,
                   loopEv, rdPc, controllerVars>>

\* ssdp.Start: once.Do(f).  The first caller runs f; a caller that arrives
\* while f runs waits for it; later callers return at once.
StartCall(c) ==
    /\ SsdpAlive
    /\ startPc[c] = "idle"
    /\ once' = IF once = "new" THEN "running" ELSE once
    /\ startPc' = [startPc EXCEPT ![c] = CASE once = "new" -> "inDo"
                                          [] once = "running" -> "waiting"
                                          [] OTHER -> "returned"]
    /\ UNCHANGED <<sockets, recvTasks, bcastTasks, loopTasks, registry, now, loopPc,
                   loopEv, rdPc, controllerVars>>

\* f: ssdpbase.NewClient opens the socket and spawns broadcastLoop and
\* recvLoop; then go loop().
NewClientOk(c) ==
    /\ SsdpAlive
    /\ startPc[c] = "inDo"
    /\ sockets' = sockets + 1
    /\ bcastTasks' = bcastTasks + 1
    /\ recvTasks' = recvTasks + 1
    /\ loopTasks' = loopTasks + 1
    /\ once' = "done"
    /\ startPc' = [startPc EXCEPT ![c] = "returned"]
    /\ UNCHANGED <<registry, now, loopPc, loopEv, rdPc, controllerVars>>

\* f: gnet.ListenPacket failed, NewClient returned the error and
\* log.Panice(err) panics.
NewClientErr(c) ==
    /\ SsdpAlive
    /\ startPc[c] = "inDo"
    /\ once' = "done"
    /\ startPc' = [startPc EXCEPT ![c] = "panicked"]
    /\ UNCHANGED <<sockets, recvTasks, bcastTasks, loopTasks, registry, now, loopPc,
                   loopEv, rdPc, controllerVars>>

\* once.Do returns to a caller that waited for f.
StartWake(c) ==
    /\ SsdpAlive
    /\ startPc[c] = "waiting"
    /\ once = "done"
    /\ startPc' = [startPc EXCEPT ![c] = "returned"]
    /\ UNCHANGED <<once, sockets, recvTasks, bcastTasks, loopTasks, registry, now,
                   loopPc, loopEv, rdPc, controllerVars>>

\* ssdp.loop: ev := <-client.Chan()
LoopRecv(ev) ==
    /\ SsdpAlive
    /\ loopTasks > 0
    /\ loopPc = "idle"
    /\ loopEv' = ev
    /\ loopPc' = "insert"
    /\ UNCHANGED <<once, startPc, sockets, recvTasks, bcastTasks, loopTasks, registry,
                   now, rdPc, controllerVars>>

\* ssdp.loop: byUSN[ev.USN] = &Service{USN: ev.USN} unless already there.
LoopInsert ==
    /\ SsdpAlive
    /\ loopPc = "insert"
    /\ registry' = IF registry[loopEv.USN].present THEN registry
                   ELSE [registry EXCEPT ![loopEv.USN] =
                            [present |-> TRUE, ST |-> "", LastSeen |-> ZeroTime]]
    /\ loopPc' = "st"
    /\ UNCHANGED <<once, startPc, sockets, recvTasks, bcastTasks, loopTasks, now,
                   loopEv, rdPc, controllerVars>>

\* ssdp.loop: svc.ST = ev.ST; svc.Location = ev.Location
LoopSetST ==
    /\ SsdpAlive
    /\ loopPc = "st"
    /\ registry' = [registry EXCEPT ![loopEv.USN].ST = loopEv.ST]
    /\ loopPc' = "seen"
    /\ UNCHANGED <<once, startPc, sockets, recvTasks, bcastTasks, loopTasks, now,
                   loopEv, rdPc, controllerVars>>

\* ssdp.loop: svc.LastSeen = time.Now()
LoopSetLastSeen ==
    /\ SsdpAlive
    /\ loopPc = "seen"
    /\ registry' = [registry EXCEPT ![loopEv.USN].LastSeen = now]
    /\ loopPc' = "idle"
    /\ UNCHANGED <<once, startPc, sockets, recvTasks, bcastTasks, loopTasks, now,
                   loopEv, rdPc, controllerVars>>

\* t.After(u); the zero Time is before every instant the clock shows.
After(t, u) == t # ZeroTime /\ t > u

IsFreshOrAtLimit(v, st) ==
    v.present /\ v.ST = st /\ ~After(now - 3 * BroadcastInterval, v.LastSeen)

\* The condition of GetServicesByType's loop for the entry v.
IsFresh(v, st) ==
    v.present /\ v.ST = st /\ After(v.LastSeen, now - 3 * BroadcastInterval)

\* ssdp.GetServicesByType(st) on the registry as it is.
ServicesByType(st) == {u \in USNs : IsFresh(registry[u], st)}

\* A caller enters GetServicesByType and ranges over byUSN; nothing makes
\* it wait for ssdp.loop.
RdBegin ==
    /\ SsdpAlive
    /\ rdPc = "idle"
    /\ rdPc' = "ranging"
    /\ UNCHANGED <<once, startPc, sockets, recvTasks, bcastTasks, loopTasks, registry,
                   now, loopPc, loopEv, controllerVars>>

\* GetServicesByType returns; when ssdp.loop was writing the map meanwhile
\* the runtime may instead stop the process (concurrent map read and map
\* write).
RdEnd ==
    /\ SsdpAlive
    /\ rdPc = "ranging"
    /\ rdPc' \in (IF loopPc = "insert" THEN {"idle", "fatal"} ELSE {"idle"})
    /\ UNCHANGED <<once, startPc, sockets, recvTasks, bcastTasks, loopTasks, registry,
                   now, loopPc, loopEv, controllerVars>>

\* One broadcast interval passes.
SsdpTick ==
    /\ SsdpAlive
    /\ now < MaxIntervals * BroadcastInterval
    /\ now' = now + BroadcastInterval
    /\ UNCHANGED <<once, startPc, sockets, recvTasks, bcastTasks, loopTasks, registry,
                   loopPc, loopEv, rdPc, controllerVars>>

SsdpNext ==
    \/ \E c \in Starters : StartCall(c)
    \/ \E c \in Starters : NewClientOk(c)
    \/ \E c \in Starters : NewClientErr(c)
    \/ \E c \in Starters : StartWake(c)
    \/ \E ev \in Events : LoopRecv(ev)
    \/ LoopInsert
    \/ LoopSetST
    \/ LoopSetLastSeen
    \/ RdBegin
    \/ RdEnd
    \/ SsdpTick

SsdpSpec == Init /\ [][SsdpNext]_vars

\* ------------------------------------------------------ mapping.mutex
\* The controller task and the observers at the granularity of
\* m.mutex.Lock() and Unlock(): which sections of the controller hold the
\* mutex, and what it calls between them.

\* Everything but the mutex and the tasks' positions around it.
unlockedVars == <<newVars, byUSN, mappingVars, mutex, ctlVars, pcD, unmapLog,
                  abortMode, failedAttempts, reqLifetime, answer, natVars, ssdpVars,
                  clientVars>>

Wait(x) == <<"wait", x>>
Locked(x) == <<"locked", x>>
Io(f) == <<"io", f>>
Done == <<"done", "">>

\* The calls of the controller that block: network transactions and the
\* select of portMappingLoop.
BlockingCalls == {"natpmp.Map", "natpmp.GetExternalAddr", "upnp.Map", "upnp.Unmap",
                  "upnp.GetExternalAddr", "select"}

\* portMappingLoop after the attempt: setInactive and return when aborting
\* or when the backoff is exhausted, else notify and select.
AfterAttempt(dstr) ==
    IF dstr THEN {Wait("setInactive")} ELSE {Wait("ExternalAddr"), Wait("setInactive")}

\* Where the controller goes when the call f returns.
AfterCall(f, dstr) ==
    CASE f = "natpmp.Map" -> {Wait("tryNATPMPGW.cfg")} \cup AfterAttempt(dstr)
      [] f = "natpmp.GetExternalAddr" -> {Wait("tryNATPMPGW.externalAddr")}
      [] f = "upnp.Map" -> {Wait("tryUPnPSvc.expireTime")} \cup AfterAttempt(dstr)
      [] f = "upnp.Unmap" -> AfterAttempt(dstr)
      [] f = "upnp.GetExternalAddr" ->
            {Wait("tryUPnPSvc.externalAddr")} \cup AfterAttempt(dstr)
      [] OTHER -> {<<"top", "">>}

\* Where the controller goes after the Unlock that ends the section x.
AfterUnlock(x, dstr) ==
    CASE x = "portMappingLoop.lIsActive" ->
            {Done, Wait("tryNATPMPGW.lIsActive"), Wait("tryUPnPSvc.lIsActive")}
      [] x = "tryNATPMPGW.lIsActive" -> AfterAttempt(dstr) \cup {Io("natpmp.Map")}
      [] x = "tryUPnPSvc.lIsActive" -> AfterAttempt(dstr) \cup {Io("upnp.Unmap")}
      [] x = "tryNATPMPGW.cfg" ->
            IF dstr THEN AfterAttempt(dstr) ELSE {Io("natpmp.GetExternalAddr")}
      [] x = "tryNATPMPGW.externalAddr" -> AfterAttempt(dstr)
      [] x = "tryUPnPSvc.expireTime" -> {Io("upnp.GetExternalAddr")}
      [] x = "tryUPnPSvc.externalAddr" -> AfterAttempt(dstr)
      [] x = "ExternalAddr" -> {Wait("notify")}
      [] x = "notify" -> {Io("select")}
      [] x = "setInactive" -> {Wait("setInactive.ExternalAddr")}
      [] x = "setInactive.ExternalAddr" -> {Wait("setInactive.notify")}
      [] OTHER -> {Done}

UnlocksExceptCfg(x) == x # "tryNATPMPGW.cfg"

\* Every section of the controller that locks the mutex unlocks it at its
\* end (an Unlock, or a deferred one at the return).
Unlocks(x) == TRUE

\* Head of portMappingLoop: lIsActive() is called only when aborting; else
\* the attempt starts in the current mode.
CtlTop ==
    /\ ctlAt = <<"top", "">>
    /\ ctlAt' \in (IF ctlDestroy THEN {Wait("portMappingLoop.lIsActive")}
                   ELSE {Io("natpmp.Map"), Io("upnp.Map")})
    /\ UNCHANGED <<holder, ctlDestroy, obPc, obOp, unlockedVars>>

\* m.mutex.Lock() on the controller task.
CtlLock ==
    /\ ctlAt[1] = "wait"
    /\ holder = "free"
    /\ holder' = "ctl"
    /\ ctlAt' = Locked(ctlAt[2])
    /\ UNCHANGED <<ctlDestroy, obPc, obOp, unlockedVars>>

\* The end of a locked section of the controller.
CtlUnlock ==
    /\ ctlAt[1] = "locked"
    /\ holder' = IF Unlocks(ctlAt[2]) THEN "free" ELSE holder
    /\ ctlAt' \in AfterUnlock(ctlAt[2], ctlDestroy)
    /\ UNCHANGED <<ctlDestroy, obPc, obOp, unlockedVars>>

\* A blocking call of the controller returns; the select returns with
\* aborting set when it took the abortChan case.
CtlReturn ==
    /\ ctlAt[1] = "io"
    /\ ctlAt' \in AfterCall(ctlAt[2], ctlDestroy)
    /\ ctlDestroy' \in (IF ctlAt[2] = "select" THEN {ctlDestroy, TRUE} ELSE {ctlDestroy})
    /\ UNCHANGED <<holder, obPc, obOp, unlockedVars>>

\* An observer calls Delete() or ExternalAddr(): m.mutex.Lock() is next.
ObCall(c, op) ==
    /\ obPc[c] = "idle"
    /\ obPc' = [obPc EXCEPT ![c] = "waiting"]
    /\ obOp' = [obOp EXCEPT ![c] = op]
    /\ UNCHANGED <<holder, ctlAt, ctlDestroy, unlockedVars>>

\* The observer's m.mutex.Lock() returns.
ObLock(c) ==
    /\ obPc[c] = "waiting"
    /\ holder = "free"
    /\ holder' = c
    /\ obPc' = [obPc EXCEPT ![c] = "locked"]
    /\ UNCHANGED <<ctlAt, ctlDestroy, obOp, unlockedVars>>

\* Delete() or ExternalAddr() returns (defer m.mutex.Unlock()).
ObReturn(c) ==
    /\ obPc[c] = "locked"
    /\ holder' = "free"
    /\ obPc' = [obPc EXCEPT ![c] = "idle"]
    /\ UNCHANGED <<ctlAt, ctlDestroy, obOp, unlockedVars>>

LockNext ==
    \/ CtlTop
    \/ CtlLock
    \/ CtlUnlock
    \/ CtlReturn
    \/ \E c \in Callers, op \in {"Delete", "ExternalAddr"} : ObCall(c, op)
    \/ \E c \in Callers : ObLock(c)
    \/ \E c \in Callers : ObReturn(c)

\* Scheduling: a task holding the mutex runs on to its Unlock; a task
\* waiting in Lock() gets the mutex when it is free again and again
\* (sync.Mutex hands over to starving waiters).  No call of the controller
\* into the network is assumed to return.
LockSpec ==
    /\ Init
    /\ [][LockNext]_vars
    /\ WF_vars(CtlUnlock)
    /\ \A c \in Callers : SF_vars(ObLock(c)) /\ WF_vars(ObReturn(c))

\* ----------------------------------------------------- ssdpbase.client
\* The client of package ssdpbase after NewClient: Stop() against
\* recvLoop / handleResponse, broadcastLoop and the reader of Chan().

\* Everything but the client and its tasks.
notClientVars == <<newVars, byUSN, mappingVars, mutex, ctlVars, pcD, unmapLog,
                   abortMode, failedAttempts, reqLifetime, answer, natVars, ssdpVars,
                   lockVars>>

\* A panic on the receive task ends the process.
ClientAlive == recvAt # "panicked"

\* Client.Stop: close(c.stopChan)
StopCloseStopChan ==
    /\ ClientAlive
    /\ stopAt = "idle"
    /\ stopChan' = "closed"
    /\ stopAt' = "stopChan closed"
    /\ UNCHANGED <<eventChan, conn, recvAt, bcastAt, notClientVars>>

\* Client.Stop: close(c.eventChan)
StopCloseEventChan ==
    /\ ClientAlive
    /\ stopAt = "stopChan closed"
    /\ eventChan' = [eventChan EXCEPT !.closed = TRUE]
    /\ stopAt' = "eventChan closed"
    /\ UNCHANGED <<stopChan, conn, recvAt, bcastAt, notClientVars>>

\* Client.Stop: c.conn.Close(), and Stop returns.
StopCloseConn ==
    /\ ClientAlive
    /\ stopAt = "eventChan closed"
    /\ conn' = "closed"
    /\ stopAt' = "returned"
    /\ UNCHANGED <<stopChan, eventChan, recvAt, bcastAt, notClientVars>>

\* recvLoop: ReadDatagramFromUDP returns a datagram ("response": one that
\* handleResponse turns into an Event, "other": one that is dropped before
\* the send) or an error; a closed socket gives an error.
RecvRead(res) ==
    /\ ClientAlive
    /\ recvAt = "read"
    /\ conn = "closed" => res = "err"
    /\ recvAt' = CASE res = "err" -> "returned"
                   [] res = "response" -> "send"
                   [] OTHER -> "read"
    /\ UNCHANGED <<stopChan, eventChan, conn, bcastAt, stopAt, notClientVars>>

\* handleResponse: select { case c.eventChan <- ev: default: }.  A send on
\* a closed channel panics; a full channel drops the event.
RecvSend ==
    /\ ClientAlive
    /\ recvAt = "send"
    /\ recvAt' = IF eventChan.closed THEN "panicked" ELSE "read"
    /\ eventChan' = IF ~eventChan.closed /\ eventChan.len < ChanCap
                    THEN [eventChan EXCEPT !.len = @ + 1]
                    ELSE eventChan
    /\ UNCHANGED <<stopChan, conn, bcastAt, stopAt, notClientVars>>

\* The reader of Chan() (ssdp.loop) takes an event.
ChanReceive ==
    /\ ClientAlive
    /\ eventChan.len > 0
    /\ eventChan' = [eventChan EXCEPT !.len = @ - 1]
    /\ UNCHANGED <<stopChan, conn, recvAt, bcastAt, stopAt, notClientVars>>

\* broadcastLoop: c.conn.WriteToUDP(discoBuf, ssdpAddr), errors ignored.
BroadcastWrite ==
    /\ ClientAlive
    /\ bcastAt = "write"
    /\ bcastAt' = "select"
    /\ UNCHANGED <<stopChan, eventChan, conn, recvAt, stopAt, notClientVars>>

\* broadcastLoop: case <-ticker.C
BroadcastTick ==
    /\ ClientAlive
    /\ bcastAt = "select"
    /\ bcastAt' = "write"
    /\ UNCHANGED <<stopChan, eventChan, conn, recvAt, stopAt, notClientVars>>

\* broadcastLoop: case <-c.stopChan: return
BroadcastStop ==
    /\ ClientAlive
    /\ bcastAt = "select"
    /\ stopChan = "closed"
    /\ bcastAt' = "returned"
    /\ UNCHANGED <<stopChan, eventChan, conn, recvAt, stopAt, notClientVars>>

ClientNext ==
    \/ StopCloseStopChan
    \/ StopCloseEventChan
    \/ StopCloseConn
    \/ \E res \in {"response", "other", "err"} : RecvRead(res)
    \/ RecvSend
    \/ ChanReceive
    \/ BroadcastWrite
    \/ BroadcastTick
    \/ BroadcastStop

\* Scheduling: the tasks keep running; a select whose stopChan case is
\* ready again and again takes it.
ClientSpec ==
    /\ Init
    /\ [][ClientNext]_vars
    /\ WF_vars(BroadcastWrite \/ BroadcastTick)
    /\ SF_vars(BroadcastStop)
    /\ WF_vars(RecvSend)

\* ------------------------------------------------------------------ claims

DeleteReturned == \E c \in Callers : pcD[c] = "returned"

\* C1 (as claimed): once Delete() has run, ExternalAddr() eventually
\* returns "" and returns "" from then on.
MonotoneTermination == [](aborted => <>[](ExternalAddr = ""))

\* C2 (as claimed): once Delete() has returned, the mapping never goes from
\* inactive (ExternalAddr() = "") to active.
NoReactivationAfterDelete ==
    [][(DeleteReturned /\ ExternalAddr = "") => ExternalAddr' = ""]_vars

\* C2 (amended): once the controller has observed the abort (aborting is
\* set), the mapping never goes from inactive to active.
NoReactivationOnceAborting ==
    [][(aborting /\ ExternalAddr = "") => ExternalAddr' = ""]_vars

\* C2 witness: a teardown attempt was made and left the mapping inactive.
TornDownInactive ==
    aborting /\ pc = "done" /\ unmapLog # <<>> /\ ExternalAddr = ""

\* C3 (as claimed): ExternalAddr() # "" implies expiry in the future,
\* external port nonzero and external IP recorded.
ActiveImpliesIPKnown ==
    ExternalAddr # "" =>
        (expireTime > 0 /\ cfg.ExternalPort # 0 /\ externalAddr # "")

\* C3 (amended): ExternalAddr() # "" implies expiry in the future and
\* external port nonzero (the external IP may still be unknown).
ActiveDefinition ==
    ExternalAddr # "" => (expireTime > 0 /\ cfg.ExternalPort # 0)

\* C3 witness: an active mapping whose external IP was never recorded.
ActiveWithoutIP == ExternalAddr # "" /\ externalAddr = ""

\* C4: ExternalAddr() is "" when the expiry is unset or not in the future
\* or the port is 0; else ":port" without a recorded IP, else "ip:port".
ExternalAddrResult ==
    ExternalAddr =
        IF expireTime = ZeroTime \/ expireTime <= 0 \/ cfg.ExternalPort = 0
        THEN ""
        ELSE IF externalAddr = ""
        THEN ":" \o ToString(cfg.ExternalPort)
        ELSE externalAddr \o ":" \o ToString(cfg.ExternalPort)

\* C4 witness: the controller mapped port 80 and recorded the external IP.
AddrWithIP == pc = "sleep" /\ ExternalAddr = "192.0.2.7:80"

\* C5 (as claimed): the last change of ExternalAddr() is signalled; once
\* the controller has exited, the value last signalled is the current one.
NotificationCoverage == pc = "done" => prevValue = ExternalAddr

\* C6: a Delete() that runs after another one changes nothing of the
\* mapping, and abortChan is closed exactly once (never closed twice).
IdempotentDelete ==
    /\ [][\A c \in Callers :
            (aborted /\ pcD[c] = "locked" /\ pcD'[c] = "returned")
                => UNCHANGED <<mappingVars, ExternalAddr>>]_vars
    /\ [](abortChan # "panic")
    /\ []((abortChan = "closed") <=> aborted)
    /\ [](DeleteReturned => aborted)

\* C6 witness: both callers' Delete() returned.
DeletedTwice == pcD["c1"] = "returned" /\ pcD["c2"] = "returned"

\* C7 (as claimed): tearing down makes exactly one unmap attempt, in the
\* mode in which the abort was observed.
TeardownOneShot ==
    unmapLog # <<>> => (Len(unmapLog) = 1 /\ unmapLog[1] = abortMode)

\* C8 (as claimed): the wakeup scheduled after a successful attempt is
\* strictly earlier than the expiry recorded for it.
RenewalPrecedesExpiry ==
    (pc = "sleep" /\ ok /\ timer = d) => d < expireTime

\* C9 (as claimed): no backend failure ends the controller task by a panic.
BackendFailuresAbsorbed == pc # "panicked"

\* C10 (as claimed): New fails and spawns no controller when gateway
\* discovery returns an error or an empty list.
NewFailsOnErrorOrEmpty ==
    (gwRes = "err" \/ (gwRes = "ok" /\ gwa = <<>>)) => (newRet = "err" /\ pc = "none")

\* C10 (amended): New fails and spawns no controller when gateway discovery
\* returns an error; with an empty list and no error it succeeds and the
\* controller runs.
NewFailsOnError ==
    /\ gwRes = "err" => (newRet = "err" /\ pc = "none" /\ ~ssdpStarted)
    /\ (gwRes = "ok" /\ gwa = <<>>) => (newRet = "ok" /\ pc # "none" /\ ssdpStarted)

\* C10 witness: gateway discovery failed and New returned its error.
NewReturnedGatewayErr == gwRes = "err" /\ newRet = "err"

\* C11: when the routability probe is true, New returns ErrGlobalIP, builds
\* no mapping, does not start SSDP and spawns no controller task.
GlobalIPStartsNothing ==
    newRet = "ErrGlobalIP" =>
        (pc = "none" /\ ~ssdpStarted /\ gwRes = "none" /\ abortChan = "open"
         /\ expireTime = ZeroTime /\ ExternalAddr = "")

\* C11 witness: New returned ErrGlobalIP.
NewReturnedGlobalIP == newRet = "ErrGlobalIP"

\* The controller gave up because the backoff was exhausted.
GaveUp == pc = "done" /\ ~aborting

\* C12 (as claimed): with MaxTries = N # 0 the controller gives up after
\* exactly N failed attempts; with MaxTries = 0 it never gives up.
GivesUpAfterMaxTries ==
    GaveUp => (cfg.Backoff.MaxTries # 0 /\ failedAttempts = cfg.Backoff.MaxTries)

\* Scenario S4: gateway discovery succeeded, every NAT-PMP request fails
\* and SSDP never hears of a service.
S4Controller ==
    \/ LoopTop
    \/ TryNATPMPGW
    \/ NatpmpMapErr
    \/ Post
    \/ WakeAbort
    \/ WakeTimer

S4Next ==
    \/ \E lifetime \in Lifetimes, port \in SuggestedPorts, b \in Backoffs :
          NewOk([i \in 1..MaxGateways |-> i], lifetime, port, b)
    \/ S4Controller
    \/ Tick
    \/ \E c \in Callers : DeleteLock(c)
    \/ \E c \in Callers : DeleteBody(c)

S4Spec ==
    /\ Init /\ [][S4Next]_vars
    /\ WF_vars(S4Controller)
    /\ SF_vars(WakeAbort)
    /\ SF_vars(Tick)
    /\ WF_vars(\E c \in Callers : DeleteBody(c))

\* C13 (as claimed), under S4Spec: the controller stays in NATPMP mode,
\* waits as the backoff says, ExternalAddr() is "" throughout, and the
\* backoff ends up exhausted (DEAD).
ScenarioS4Dead ==
    /\ [](mode = modeNATPMP /\ ExternalAddr = "")
    /\ [][(pc = "post" /\ pc' = "sleep") => timer' = NextDelay(cfg.Backoff, currentTry)]_vars
    /\ (newRet = "ok") ~> (pc = "done")

\* C13 (amended), under S4Spec: as above, but the backoff ends up exhausted
\* only when MaxTries # 0; with MaxTries = 0 the controller retries for
\* ever, unless Delete() is called.
ScenarioS4 ==
    /\ [](mode = modeNATPMP /\ ExternalAddr = "")
    /\ [][(pc = "post" /\ pc' = "sleep") => timer' = NextDelay(cfg.Backoff, currentTry)]_vars
    /\ (newRet = "ok" /\ cfg.Backoff.MaxTries # 0) ~> (pc = "done")
    /\ []((cfg.Backoff.MaxTries = 0 /\ ~aborted) => pc # "done")

\* C13 witness: the backoff ran out after failed NAT-PMP requests.
S4Exhausted == GaveUp /\ failedAttempts > 0 /\ Len(gwa) > 0

\* C14: against a gateway that never answers (every send ran into its
\* deadline), makeRequest sends 9 requests, with receive windows of 250 ms
\* doubling up to 64 s, and then fails with the timeout error; it never
\* sends more than 9.
BlackHoleSchedule ==
    /\ mrSends <= backoff.MaxTries
    /\ mrTimeouts = mrSends =>
          /\ mrWindows = SubSeq(<<250, 500, 1000, 2000, 4000, 8000, 16000, 32000, 64000>>,
                                1, mrSends)
          /\ mrPc = "timeout" => mrSends = backoff.MaxTries

\* C14 witness: the ninth window ran out and the transaction timed out.
BlackHoleTimedOut == mrPc = "timeout" /\ mrTimeouts = 9

\* C15 (as claimed): a discarded datagram costs no backoff attempt and
\* causes no retransmission: while makeRequest reads, every request but
\* the first was sent after a deadline ran out.
HeaderDiscipline ==
    mrPc = "read" => (mrSends = mrTimeouts + 1 /\ mrTry = mrTimeouts + 1)

\* C16: GetServicesByType(st) returns exactly the entries whose ST is st
\* and whose LastSeen t satisfies now - t < 3 * BroadcastInterval (180 s).
SsdpFreshness ==
    \A st \in STs :
        ServicesByType(st) =
            {u \in USNs : /\ registry[u].present
                          /\ registry[u].ST = st
                          /\ registry[u].LastSeen # ZeroTime
                          /\ now - registry[u].LastSeen < 180}

\* C16 witness: an entry last seen exactly 180 s ago is not returned.
AtLimitNotReturned ==
    \E u \in USNs :
        /\ registry[u].present /\ registry[u].ST = upnpWANIPConnectionURN
        /\ loopPc = "idle"
        /\ now - registry[u].LastSeen = 180
        /\ u \notin ServicesByType(upnpWANIPConnectionURN)

\* C17: however many tasks call Start(), at most one socket is opened and
\* one receive, one broadcast and one event task spawned; once a call has
\* returned and none panicked, there is exactly one of each.
StartOnce ==
    /\ sockets <= 1 /\ recvTasks <= 1 /\ bcastTasks <= 1 /\ loopTasks <= 1
    /\ ((\E c \in Starters : startPc[c] = "returned") /\ SsdpAlive) =>
          (sockets = 1 /\ recvTasks = 1 /\ bcastTasks = 1 /\ loopTasks = 1)

\* C17 witness: every caller's Start() has returned.
AllStarted == \A c \in Starters : startPc[c] = "returned"

\* C18 (as claimed): GetServicesByType never reads the registry while
\* ssdp.loop is in the middle of inserting or updating an entry.
RegistryExclusion == ~(rdPc = "ranging" /\ loopPc # "idle")

\* C19: the controller starts in NATPMP mode; mode becomes UPNP only in the
\* step that ends a NAT-PMP attempt which failed on every gateway while a
\* fresh WANIPConnection:1 service is known, and that step goes back to the
\* head of the loop without touching the backoff or the timer; mode goes
\* back to NATPMP only at the head of the loop, when no fresh service is
\* known, and that step issues no UPnP request.
ModeSwitching ==
    /\ mode = modeNATPMP
    /\ [][/\ (mode = modeNATPMP /\ mode' = modeUPnP) =>
                (/\ pc = "natpmp_gw" /\ gi > Len(gwa)
                 /\ GetServicesByType # {}
                 /\ pc' = "top"
                 /\ currentTry' = currentTry /\ d' = d /\ timer' = timer
                 /\ failedAttempts' = failedAttempts)
          /\ (mode = modeUPnP /\ mode' = modeNATPMP) =>
                (/\ pc = "top" /\ pc' = "top"
                 /\ GetServicesByType = {}
                 /\ svcs' = svcs /\ unmapLog' = unmapLog)]_vars

\* C19 witness: the controller has just switched to UPNP after NAT-PMP
\* failed on its gateway.
SwitchedToUPnP == mode = modeUPnP /\ pc = "top" /\ Len(gwa) > 0 /\ ~ok

\* C20 (as claimed): a NAT-PMP Map request about to be sent carries the
\* configured lifetime when the controller is not tearing down, and zero
\* only when it is.
RequestsConfiguredLifetime ==
    pc = "natpmp_map" =>
        preferredLifetime = (IF aborting THEN 0 ELSE reqLifetime)

\* C21: when tryNATPMP returns after a gateway answered the Map request,
\* the mapping's external port is the port of the answer, its expiry is
\* the instant of the answer plus the granted lifetime, d is half the
\* granted lifetime and the controller sleeps that long; the external IP
\* is the one the address query returned, or left alone when the query
\* failed; and once a gateway has answered no further gateway is asked.
NatpmpSuccessRecorded ==
    /\ [](answer # NoAnswer => pc \in {"natpmp_ext", "post"})
    /\ []((pc = "post" /\ answer # NoAnswer) =>
            (/\ ok
             /\ cfg.ExternalPort = answer.port
             /\ expireTime = answer.lifetime - answer.age
             /\ d = answer.lifetime \div 2
             /\ (answer.ext # "err" => externalAddr = answer.ext)))
    /\ [][/\ (answer.ext = "none" /\ answer'.ext = "err") =>
                externalAddr' = externalAddr
          /\ (pc = "post" /\ answer # NoAnswer /\ pc' # pc) =>
                (pc' = "sleep" /\ timer' = answer.lifetime \div 2)]_vars

\* C21 witness: the first of several gateways granted a port other than the
\* suggested one, and tryNATPMP has returned.
FirstGatewayOtherPort ==
    /\ pc = "post" /\ Len(gwa) > 1 /\ answer.gw = 1
    /\ answer.suggested # 0 /\ answer.port # answer.suggested

\* C22 (as claimed): with Delete() called while a protocol request is in
\* flight, once a Delete() has returned the controller starts no map
\* request (create or renew), through NAT-PMP or through UPnP.
NoMapAfterDelete ==
    [][DeleteReturned =>
         ~(/\ pc' # pc
           /\ \/ pc' = "natpmp_map" /\ preferredLifetime' # 0
              \/ pc' = "upnp_map")]_vars

\* C23: the controller never holds the mapping's mutex while it is in a
\* NAT-PMP transaction, a UPnP request or its select, and an observer's
\* Delete() or ExternalAddr() returns even if no network call of the
\* controller ever does.
MutexNotHeldWhileBlocking ==
    /\ []((ctlAt[1] = "io" /\ ctlAt[2] \in BlockingCalls) => holder # "ctl")
    /\ [](holder = "ctl" <=> ctlAt[1] = "locked")
    /\ \A c \in Callers : (obPc[c] = "waiting") ~> (obPc[c] = "idle")

\* C23 witness: an observer holds the mutex, inside Delete(), while the
\* controller is waiting for the gateway's answer to natpmp.Map.
DeleteDuringMap ==
    \E c \in Callers :
        /\ obPc[c] = "locked" /\ obOp[c] = "Delete" /\ holder = c
        /\ ctlAt = Io("natpmp.Map")

\* C24: a controller that is tearing down a mapping that is not active
\* sends no request (no NAT-PMP Map, no UPnP DeletePortMapping or
\* AddPortMapping), does not go to sleep, and returns when it is at the
\* head of its loop.
InactiveTeardownSilent ==
    [][(aborting /\ ~isActive /\ pc' # pc) =>
         (/\ pc' \notin {"natpmp_map", "natpmp_ext", "upnp_map", "upnp_unmap",
                         "upnp_ext", "sleep"}
          /\ (pc = "top" => pc' = "done"))]_vars

\* C24 witness: the controller observed the abort and returned without
\* having made any attempt to remove a mapping.
ExitedWithoutUnmap == pc = "done" /\ aborting /\ unmapLog = <<>>

\* C25: the wait that follows the j-th failed attempt in a row (counted
\* from the start or from the last successful attempt) is D_(j-1) of the
\* configured schedule, D_i = min(InitialDelay * 2^min(i, MaxDelayAfterTries),
\* MaxDelay); a mode switch is not counted and consumes nothing.
CrossAttemptBackoff ==
    /\ []((pc = "sleep" /\ ~ok /\ failedAttempts > 0) =>
            d = Min(cfg.Backoff.InitialDelay
                      * Pow2(Min(failedAttempts - 1, cfg.Backoff.MaxDelayAfterTries)),
                    cfg.Backoff.MaxDelay))
    /\ [][(mode' # mode) =>
             (currentTry' = currentTry /\ failedAttempts' = failedAttempts)]_vars

\* C25 witness: the first failure after a success (the mapping had been
\* active and signalled) waits the initial delay.
FirstFailureAfterSuccess ==
    /\ pc = "sleep" /\ ~ok /\ failedAttempts = 1
    /\ prevValue # "" /\ d = cfg.Backoff.InitialDelay

\* C26 (as claimed): the controller does not go on switching between the
\* modes for ever; again and again it gets to the end of an attempt (where
\* it consumes backoff or resets it, and sleeps or observes the abort) or
\* it has returned.
NoEndlessModeSwitching ==
    [](newRet = "ok" => <>(pc \in {"post", "sleep", "done", "panicked"}))

\* C27 (as claimed): whatever the interleaving of Stop() with the receive
\* task, no event is sent on the event channel once Stop() has closed it
\* (the receive task does not panic), and the broadcast task returns after
\* Stop().
StopIsSafe ==
    /\ [](recvAt # "panicked")
    /\ (stopAt = "returned") ~> (bcastAt = "returned")

====
